---- MODULE Spec2Model ----
(***************************************************************************)
(* Model of src/src/App.js: the AtomicFormula value type, the two file     *)
(* loaders, the matching run (applyCorrections and its deferred callback)  *)
(* and Reset, as the handlers and callbacks of the MolecularMatcher        *)
(* component.                                                              *)
(*                                                                         *)
(* A text is a sequence of one-character strings, so that formatting,      *)
(* trimming, splitting and the regular expression of parseFormulaString    *)
(* are computed character by character.                                    *)
(***************************************************************************)
EXTENDS Integers, Sequences, FiniteSets, Bags, TLC

\* ------------------------------------------------------------------------
\* Bounds of the model
\* ------------------------------------------------------------------------
MaxPending == 2     \* callbacks (file reads, timers) outstanding at once
MaxEntries == 3     \* catalog length of the matching-loop specification
MaxCorr    == 2     \* correction-list length of the matching-loop specification
MaxBatch   == 2     \* batch sizes 1..MaxBatch of the matching-loop specification
MaxCount   == 1     \* counts n, 10n and 11n with |n| <= MaxCount of the method specification
MaxTokens  == 2     \* tokens of an input text of the parsing specification
MaxExport  == 3     \* catalog length of the export specification

\* ------------------------------------------------------------------------
\* Characters
\* ------------------------------------------------------------------------
UpperCase == {"A","B","C","D","E","F","G","H","I","J","K","L","M",
              "N","O","P","Q","R","S","T","U","V","W","X","Y","Z"}
LowerCase == {"a","b","c","d","e","f","g","h","i","j","k","l","m",
              "n","o","p","q","r","s","t","u","v","w","x","y","z"}
Digits == {"0","1","2","3","4","5","6","7","8","9"}
WhiteSpace == {" ", "\t", "\r", "\n"}

DigitChar == <<"0","1","2","3","4","5","6","7","8","9">>

DigitValue(ch) == CHOOSE d \in 0..9 : DigitChar[d + 1] = ch

\* Template-literal formatting of a non-negative integer.
RECURSIVE NatToString(_)
NatToString(n) ==
    IF n < 10 THEN <<DigitChar[n + 1]>>
    ELSE NatToString(n \div 10) \o <<DigitChar[(n % 10) + 1]>>

\* A formatting that leaves the sign out.
NumberToString_unsigned(n) ==
    IF n < 0 THEN NatToString(-n) ELSE NatToString(n)

\* Template-literal formatting of an integer: `${n}`.
NumberToString(n) ==
    IF n < 0 THEN <<"-">> \o NatToString(-n) ELSE NatToString(n)

\* String.prototype.trim
RECURSIVE TrimStart(_)
TrimStart(s) ==
    IF s # <<>> /\ Head(s) \in WhiteSpace THEN TrimStart(Tail(s)) ELSE s

RECURSIVE TrimEnd(_)
TrimEnd(s) ==
    IF s # <<>> /\ s[Len(s)] \in WhiteSpace
    THEN TrimEnd(SubSeq(s, 1, Len(s) - 1)) ELSE s

trim(s) == TrimEnd(TrimStart(s))

\* text.split('\n'): the pieces between newlines (always at least one piece).
RECURSIVE SplitFrom(_, _, _)
SplitFrom(s, k, cur) ==
    IF k > Len(s) THEN <<cur>>
    ELSE IF s[k] = "\n" THEN <<cur>> \o SplitFrom(s, k + 1, <<>>)
    ELSE SplitFrom(s, k + 1, Append(cur, s[k]))

splitLines(s) == SplitFrom(s, 1, <<>>)

\* ------------------------------------------------------------------------
\* AtomicFormula
\* ------------------------------------------------------------------------
AtomicFormula(carbon, hydrogen, nitrogen, oxygen, sulfur, phosphorus, chlorine) ==
    [carbon |-> carbon, hydrogen |-> hydrogen, nitrogen |-> nitrogen,
     oxygen |-> oxygen, sulfur |-> sulfur, phosphorus |-> phosphorus,
     chlorine |-> chlorine]

\* A sum that keeps the hydrogen count of the receiver.
add_noHydrogen(this, other) ==
    AtomicFormula(this.carbon + other.carbon, this.hydrogen,
                  this.nitrogen + other.nitrogen, this.oxygen + other.oxygen,
                  this.sulfur + other.sulfur, this.phosphorus + other.phosphorus,
                  this.chlorine + other.chlorine)

add(this, other) ==
    AtomicFormula(this.carbon + other.carbon, this.hydrogen + other.hydrogen,
                  this.nitrogen + other.nitrogen, this.oxygen + other.oxygen,
                  this.sulfur + other.sulfur, this.phosphorus + other.phosphorus,
                  this.chlorine + other.chlorine)

\* A formatting that leaves the hydrogen count out of the key.
toFormulaString_noHydrogen(this) ==
    <<"C">> \o NumberToString(this.carbon)
    \o <<"H">>
    \o <<"C", "l">> \o NumberToString(this.chlorine)
    \o <<"N">> \o NumberToString(this.nitrogen)
    \o <<"O">> \o NumberToString(this.oxygen)
    \o <<"P">> \o NumberToString(this.phosphorus)
    \o <<"S">> \o NumberToString(this.sulfur)

toFormulaString(this) ==
    <<"C">> \o NumberToString(this.carbon)
    \o <<"H">> \o NumberToString(this.hydrogen)
    \o <<"C", "l">> \o NumberToString(this.chlorine)
    \o <<"N">> \o NumberToString(this.nitrogen)
    \o <<"O">> \o NumberToString(this.oxygen)
    \o <<"P">> \o NumberToString(this.phosphorus)
    \o <<"S">> \o NumberToString(this.sulfur)

\* parseInt(s) || 0 for a text s matched by -?\d* : NaN (no digit) gives 0.
RECURSIVE DigitsValue(_, _)
DigitsValue(s, acc) ==
    IF s = <<>> THEN acc
    ELSE DigitsValue(Tail(s), 10 * acc + DigitValue(Head(s)))

\* A reading that takes a missing count for one atom.
parseIntOrOne(s) ==
    IF s = <<>> THEN 1
    ELSE IF Head(s) = "-"
         THEN (IF Len(s) = 1 THEN 1 ELSE 0 - DigitsValue(Tail(s), 0))
         ELSE DigitsValue(s, 0)

\* A reading that takes the digits and drops the sign.
parseIntOrZero_unsigned(s) ==
    IF s = <<>> THEN 0
    ELSE IF Head(s) = "-"
         THEN (IF Len(s) = 1 THEN 0 ELSE DigitsValue(Tail(s), 0))
         ELSE DigitsValue(s, 0)

parseIntOrZero(s) ==
    IF s = <<>> THEN 0
    ELSE IF Head(s) = "-"
         THEN (IF Len(s) = 1 THEN 0 ELSE 0 - DigitsValue(Tail(s), 0))
         ELSE DigitsValue(s, 0)

\* End of the longest run of digits starting at position k (k - 1 if none).
RECURSIVE DigitsEnd(_, _)
DigitsEnd(s, k) ==
    IF k <= Len(s) /\ s[k] \in Digits THEN DigitsEnd(s, k + 1) ELSE k - 1

\* An assignment that adds to the value already stored.
PutAtom_sum(atoms, key, value) ==
    [x \in DOMAIN atoms \cup {key} |->
        IF x = key THEN (IF key \in DOMAIN atoms THEN atoms[key] + value ELSE value)
        ELSE atoms[x]]

\* atoms[key] = value on a plain object
PutAtom(atoms, key, value) ==
    [x \in DOMAIN atoms \cup {key} |-> IF x = key THEN value ELSE atoms[x]]

\* atoms[key] || 0
AtomOrZero(atoms, key) == IF key \in DOMAIN atoms THEN atoms[key] ELSE 0

\* The loop `while ((match = pattern.exec(formula)) !== null)` with
\* pattern /([A-Z][a-z]?)(-?\d*)/g : from lastIndex k, the leftmost upper-case
\* letter starts a match, which takes one lower-case letter if present, a
\* minus sign if present and then every digit that follows.
RECURSIVE ScanAtoms(_, _, _)
ScanAtoms(formula, k, atoms) ==
    IF k > Len(formula) THEN atoms
    ELSE IF formula[k] \notin UpperCase THEN ScanAtoms(formula, k + 1, atoms)
    ELSE LET symEnd == IF k + 1 <= Len(formula) /\ formula[k + 1] \in LowerCase
                       THEN k + 1 ELSE k
             numStart == symEnd + 1
             afterSign == IF numStart <= Len(formula) /\ formula[numStart] = "-"
                          THEN numStart + 1 ELSE numStart
             numEnd == DigitsEnd(formula, afterSign)
             symbol == SubSeq(formula, k, symEnd)
             number == SubSeq(formula, numStart, numEnd)
         IN  ScanAtoms(formula, numEnd + 1,
                       PutAtom(atoms, symbol, parseIntOrZero(number)))

parseFormulaString(formula) ==
    LET atoms == ScanAtoms(formula, 1, <<>>)
    IN  AtomicFormula(AtomOrZero(atoms, <<"C">>), AtomOrZero(atoms, <<"H">>),
                      AtomOrZero(atoms, <<"N">>), AtomOrZero(atoms, <<"O">>),
                      AtomOrZero(atoms, <<"S">>), AtomOrZero(atoms, <<"P">>),
                      AtomOrZero(atoms, <<"C", "l">>))

\* ------------------------------------------------------------------------
\* Input files
\* ------------------------------------------------------------------------
ID == <<"I", "D">>
formulasColumn == <<"f", "o", "r", "m", "u", "l", "a", "s">>

\* Papa.parse(file, {header: true}): one object per record, keyed by the
\* header names as they stand in the file.
PapaRow(fields, cells) ==
    [h \in {fields[j] : j \in DOMAIN fields} |->
        cells[CHOOSE j \in DOMAIN fields : fields[j] = h]]

PapaResults(fields, records) ==
    [fields |-> fields,
     data |-> [r \in DOMAIN records |-> PapaRow(fields, records[r])]]

\* event.target.files[0] of a change event that carries no file
undefined == [undefined |-> TRUE]

\* ids 1, 2 with formulas C1H1, C1H2 and a record without ID
FileA == PapaResults(<<ID, formulasColumn>>,
            << <<<<"1">>, <<"C", "1", "H", "1">>>>,
               <<<<>>, <<"C", "9">>>>,
               <<<<"2">>, <<"C", "1", "H", "2">>>> >>)
\* two records with one canonical formula, and id 1 twice
FileB == PapaResults(<<ID, formulasColumn>>,
            << <<<<"1">>, <<"C", "1", "H", "1">>>>,
               <<<<"2">>, <<" ", "H", "1", "C", "1", " ">>>>,
               <<<<"1">>, <<"C", "1", "H", "2">>>> >>)
\* no formulas column
FileC == PapaResults(<<ID>>, << <<<<"1">>>> >>)
\* both columns, no record with both values
FileD == PapaResults(<<ID, formulasColumn>>,
            << <<<<>>, <<"C", "1", "H", "1">>>>,
               <<<<"3">>, <<>>>> >>)

FormulaFiles == {FileA, FileB, FileC, FileD}

\* "H-1\n"
TextA == <<"H", "-", "1", "\n">>
\* "C0H0\nH1\n H01\r\n"
TextB == <<"C", "0", "H", "0", "\n", "H", "1", "\n",
           " ", "H", "0", "1", "\r", "\n">>
\* " \n\n"
TextC == <<" ", "\n", "\n">>

\* A File of the corrections input, by the text file.text() resolves to.
CorrectionFiles == {[text |-> TextA], [text |-> TextB], [text |-> TextC]}

\* ------------------------------------------------------------------------
\* State
\* ------------------------------------------------------------------------
VARIABLES
    formulas,         \* useState([])   : sequence of [id, originalFormula]
    corrections,      \* useState([])   : sequence of [formula]
    results,          \* useState([])   : sequence of matches
    searchQuery,      \* useState('')
    sortConfig,       \* useState({key: 'id', direction: 'asc'})
    selectedId,       \* useState(null)
    error,            \* useState(null)
    isLoading,        \* useState(false)
    processProgress,  \* useState({current: 0, total: 0})
    isProcessing,     \* useState(false)
    parseTasks,       \* bag of files handed to Papa.parse, callback not yet run
    textTasks,        \* bag of texts whose file.text() promise is not yet settled
    timers,           \* bag of setTimeout callbacks not yet run, each with the
                      \* formulas and corrections its closure captured
    pc,               \* position in the batch loop (matching-loop specification)
    loopBatchSize,    \* batch size of the loop under way
    i,                \* loop variable i
    newResults,       \* local newResults of the loop under way
    exportData,       \* the rows exportToCSV handed to Papa.unparse last
    calc              \* arguments and results of the AtomicFormula functions
                      \* applied on their own (formula and parse specifications)

vars == <<formulas, corrections, results, searchQuery, sortConfig, selectedId,
          error, isLoading, processProgress, isProcessing,
          parseTasks, textTasks, timers, pc, loopBatchSize, i, newResults,
          exportData, calc>>

viewVars == <<searchQuery, sortConfig, selectedId>>
loopVars == <<pc, loopBatchSize, i, newResults>>
taskVars == <<parseTasks, textTasks, timers>>
workVars == <<exportData, calc>>

\* calc where no function is applied on its own
NoCalc == [step |-> "none"]

null == [message |-> "null", detail |-> <<>>]
Error(message, detail) == [message |-> message, detail |-> detail]

PendingCount ==
    BagCardinality(parseTasks) + BagCardinality(textTasks) + BagCardinality(timers)

\* ------------------------------------------------------------------------
\* Formula catalog loader
\* ------------------------------------------------------------------------
RECURSIVE Join(_, _)
Join(texts, separator) ==
    IF texts = <<>> THEN <<>>
    ELSE IF Len(texts) = 1 THEN texts[1]
    ELSE texts[1] \o separator \o Join(Tail(texts), separator)

requiredColumns == <<ID, formulasColumn>>

\* A validation that reports every required column once one is missing.
validateCSVStructure_allColumns(headers) ==
    LET isMissing(col) == ~ \E j \in DOMAIN headers : trim(headers[j]) = col
        missingColumns == SelectSeq(requiredColumns, isMissing)
    IN  IF Len(missingColumns) > 0
        THEN [isValid |-> FALSE,
              message |-> Error("Missing required column(s): ",
                                Join(requiredColumns, <<",", " ">>))]
        ELSE [isValid |-> TRUE, message |-> null]

validateCSVStructure(headers) ==
    LET isMissing(col) == ~ \E j \in DOMAIN headers : trim(headers[j]) = col
        missingColumns == SelectSeq(requiredColumns, isMissing)
    IN  IF Len(missingColumns) > 0
        THEN [isValid |-> FALSE,
              message |-> Error("Missing required column(s): ",
                                Join(missingColumns, <<",", " ">>))]
        ELSE [isValid |-> TRUE, message |-> null]

\* row[key] where a missing key reads as undefined; both undefined and the
\* empty string are falsy, and the two are told apart nowhere.
Field(row, key) == IF key \in DOMAIN row THEN row[key] ELSE <<>>

\* results.data.filter(row => row['ID'] && row['formulas']).map(...)
parsedFormulasOf(data) ==
    LET usable(row) == Field(row, ID) # <<>> /\ Field(row, formulasColumn) # <<>>
        kept == SelectSeq(data, usable)
    IN  [r \in DOMAIN kept |->
            [id |-> kept[r][ID],
             originalFormula |-> parseFormulaString(trim(kept[r][formulasColumn]))]]

\* ------------------------------------------------------------------------
\* Correction catalog loader
\* ------------------------------------------------------------------------
correctionFormulasOf(text) ==
    LET lines == splitLines(text)
        trimmed == [r \in DOMAIN lines |-> trim(lines[r])]
        kept == SelectSeq(trimmed, LAMBDA line : Len(line) > 0)
    IN  [r \in DOMAIN kept |-> [formula |-> parseFormulaString(kept[r])]]

\* ------------------------------------------------------------------------
\* Matching
\* ------------------------------------------------------------------------
batchSize == 100

\* A map that keeps the first value stored under a key.
MapSet_keepFirst(map, key, value) ==
    IF key \in DOMAIN map THEN map
    ELSE [x \in DOMAIN map \cup {key} |-> IF x = key THEN value ELSE map[x]]

\* Map.prototype.set
MapSet(map, key, value) ==
    [x \in DOMAIN map \cup {key} |-> IF x = key THEN value ELSE map[x]]

\* formulas.forEach(c => formulasByFormula.set(c.originalFormula.toFormulaString(), c))
RECURSIVE IndexFrom(_, _, _)
IndexFrom(fs, k, map) ==
    IF k > Len(fs) THEN map
    ELSE IndexFrom(fs, k + 1,
                   MapSet(map, toFormulaString(fs[k].originalFormula), fs[k]))

formulasByFormula(fs) == IndexFrom(fs, 1, <<>>)

\* The test of line 175 without its second conjunct.
IsMatch_anyId(map, key, formula) == key \in DOMAIN map

\* matchedFormula && matchedFormula.id !== formula.id
IsMatch(map, key, formula) ==
    key \in DOMAIN map /\ map[key].id # formula.id

\* A loop over the corrections that stops at the first match of the formula.
RECURSIVE CorrectionsFrom_firstOnly(_, _, _, _)
CorrectionsFrom_firstOnly(formula, cs, k, map) ==
    IF k > Len(cs) THEN <<>>
    ELSE LET key == toFormulaString(add(formula.originalFormula, cs[k].formula))
         IN  IF IsMatch(map, key, formula)
             THEN << [originalEntry |-> formula, matchedEntry |-> map[key],
                      appliedCorrection |-> cs[k].formula] >>
             ELSE CorrectionsFrom_firstOnly(formula, cs, k + 1, map)

\* corrections.forEach(correction => ...) for one formula, from correction k on
RECURSIVE CorrectionsFrom(_, _, _, _)
CorrectionsFrom(formula, cs, k, map) ==
    IF k > Len(cs) THEN <<>>
    ELSE LET correctedFormula == add(formula.originalFormula, cs[k].formula)
             correctedFormulaString == toFormulaString(correctedFormula)
             pushed ==
                 IF IsMatch(map, correctedFormulaString, formula)
                 THEN << [originalEntry |-> formula,
                          matchedEntry |-> map[correctedFormulaString],
                          appliedCorrection |-> cs[k].formula] >>
                 ELSE <<>>
         IN  pushed \o CorrectionsFrom(formula, cs, k + 1, map)

\* batchFormulas.forEach(formula => ...)
RECURSIVE ProcessBatch(_, _, _)
ProcessBatch(batchFormulas, cs, map) ==
    IF batchFormulas = <<>> THEN <<>>
    ELSE CorrectionsFrom(Head(batchFormulas), cs, 1, map)
         \o ProcessBatch(Tail(batchFormulas), cs, map)

Min(a, b) == IF a < b THEN a ELSE b

\* A slice that stops one entry short of the batch.
BatchSlice_short(fs, start, size) ==
    SubSeq(fs, start + 1, Min(start + size, Len(fs)) - 1)

\* formulas.slice(i, Math.min(i + batchSize, formulas.length)), i counted from 0
BatchSlice(fs, start, size) ==
    SubSeq(fs, start + 1, Min(start + size, Len(fs)))

\* for (let i = 0; i < formulas.length; i += batchSize) { ... }
RECURSIVE BatchLoop(_, _, _, _, _, _)
BatchLoop(fs, cs, map, start, size, acc) ==
    IF start < Len(fs)
    THEN BatchLoop(fs, cs, map, start + size, size,
                   acc \o ProcessBatch(BatchSlice(fs, start, size), cs, map))
    ELSE acc

\* The body of the try block up to newResults being complete.
RunMatching(fs, cs, size) ==
    BatchLoop(fs, cs, formulasByFormula(fs), 0, size, <<>>)

\* ------------------------------------------------------------------------
\* Initial state: the useState defaults, nothing pending
\* ------------------------------------------------------------------------
noSelection == <<>>

Init ==
    /\ formulas = <<>>
    /\ corrections = <<>>
    /\ results = <<>>
    /\ searchQuery = <<>>
    /\ sortConfig = [key |-> "id", direction |-> "asc"]
    /\ selectedId = noSelection
    /\ error = null
    /\ isLoading = FALSE
    /\ processProgress = [current |-> 0, total |-> 0]
    /\ isProcessing = FALSE
    /\ parseTasks = EmptyBag
    /\ textTasks = EmptyBag
    /\ timers = EmptyBag
    /\ pc = "idle"
    /\ loopBatchSize = batchSize
    /\ i = 0
    /\ newResults = <<>>
    /\ exportData = <<>>
    /\ calc = NoCalc

\* ------------------------------------------------------------------------
\* handleFormulaFile and the callbacks it hands to Papa.parse
\* ------------------------------------------------------------------------
handleFormulaFile(file) ==
    /\ error' = null
    /\ isLoading' = TRUE
    /\ parseTasks' = IF file # undefined
                     THEN parseTasks (+) SetToBag({file})
                     ELSE parseTasks
    /\ UNCHANGED <<formulas, corrections, results, processProgress,
                   isProcessing, textTasks, timers, viewVars, workVars, loopVars>>

\* A complete callback that reports nothing when no row is usable.
PapaComplete_silentEmpty(file) ==
    /\ BagIn(file, parseTasks)
    /\ parseTasks' = parseTasks (-) SetToBag({file})
    /\ LET validationResult == validateCSVStructure(file.fields)
           parsedFormulas == parsedFormulasOf(file.data)
       IN  IF ~validationResult.isValid
           THEN /\ error' = validationResult.message
                /\ formulas' = <<>>
           ELSE /\ formulas' = parsedFormulas
                /\ error' = error
    /\ isLoading' = FALSE
    /\ UNCHANGED <<corrections, results, processProgress, isProcessing,
                   textTasks, timers, viewVars, workVars, loopVars>>

\* complete: (results) => { ... }
\* The catch block of lines 97-102 has no counterpart: every kept row has
\* string values, and parseFormulaString does not throw.
PapaComplete(file) ==
    /\ BagIn(file, parseTasks)
    /\ parseTasks' = parseTasks (-) SetToBag({file})
    /\ LET validationResult == validateCSVStructure(file.fields)
           parsedFormulas == parsedFormulasOf(file.data)
       IN  IF ~validationResult.isValid
           THEN /\ error' = validationResult.message
                /\ formulas' = <<>>
           ELSE IF Len(parsedFormulas) = 0
           THEN /\ error' = Error("No valid formulas found in the CSV file", <<>>)
                /\ formulas' = formulas
           ELSE /\ formulas' = parsedFormulas
                /\ error' = error
    /\ isLoading' = FALSE
    /\ UNCHANGED <<corrections, results, processProgress, isProcessing,
                   textTasks, timers, viewVars, workVars, loopVars>>

\* error: (error) => { ... } : the reader failed on the file
PapaError(file) ==
    /\ BagIn(file, parseTasks)
    /\ parseTasks' = parseTasks (-) SetToBag({file})
    /\ error' = Error("Error parsing CSV file: ", <<>>)
    /\ formulas' = <<>>
    /\ isLoading' = FALSE
    /\ UNCHANGED <<corrections, results, processProgress, isProcessing,
                   textTasks, timers, viewVars, workVars, loopVars>>

\* ------------------------------------------------------------------------
\* handleCorrectionFile: up to the await, and the two ways it resumes
\* ------------------------------------------------------------------------
handleCorrectionFile(file) ==
    /\ error' = null
    /\ isLoading' = TRUE
    /\ textTasks' = IF file # undefined
                    THEN textTasks (+) SetToBag({file})
                    ELSE textTasks
    /\ UNCHANGED <<formulas, corrections, results, processProgress,
                   isProcessing, parseTasks, timers, viewVars, workVars, loopVars>>

\* file.text() fulfilled
TextResolved(file) ==
    /\ BagIn(file, textTasks)
    /\ textTasks' = textTasks (-) SetToBag({file})
    /\ corrections' = correctionFormulasOf(file.text)
    /\ isLoading' = FALSE
    /\ UNCHANGED <<formulas, results, error, processProgress, isProcessing,
                   parseTasks, timers, viewVars, workVars, loopVars>>

\* A catch block that empties both catalogs.
TextRejected_clearsFormulas(file) ==
    /\ BagIn(file, textTasks)
    /\ textTasks' = textTasks (-) SetToBag({file})
    /\ error' = Error("Error parsing corrections file: ", <<>>)
    /\ corrections' = <<>>
    /\ formulas' = <<>>
    /\ isLoading' = FALSE
    /\ UNCHANGED <<results, processProgress, isProcessing,
                   parseTasks, timers, viewVars, workVars, loopVars>>

\* file.text() rejected: the catch block
TextRejected(file) ==
    /\ BagIn(file, textTasks)
    /\ textTasks' = textTasks (-) SetToBag({file})
    /\ error' = Error("Error parsing corrections file: ", <<>>)
    /\ corrections' = <<>>
    /\ isLoading' = FALSE
    /\ UNCHANGED <<formulas, results, processProgress, isProcessing,
                   parseTasks, timers, viewVars, workVars, loopVars>>

\* ------------------------------------------------------------------------
\* applyCorrections and its setTimeout callback
\* ------------------------------------------------------------------------
applyCorrections ==
    IF Len(formulas) = 0 \/ Len(corrections) = 0
    THEN /\ error' = Error("No formulas or corrections loaded", <<>>)
         /\ UNCHANGED <<formulas, corrections, results, isLoading,
                        processProgress, isProcessing, taskVars, viewVars, workVars,
                        loopVars>>
    ELSE /\ isLoading' = TRUE
         /\ processProgress' = [current |-> 0, total |-> Len(formulas)]
         /\ isProcessing' = TRUE
         /\ timers' = timers (+) SetToBag({[formulas |-> formulas,
                                            corrections |-> corrections]})
         /\ UNCHANGED <<formulas, corrections, results, error, parseTasks,
                        textTasks, viewVars, workVars, loopVars>>

\* The callback runs to setResults: try block completed, then finally.
\* It reads the formulas and corrections of the render that called setTimeout.
TimerCallback(t) ==
    /\ BagIn(t, timers)
    /\ timers' = timers (-) SetToBag({t})
    /\ results' = RunMatching(t.formulas, t.corrections, batchSize)
    /\ processProgress' = [processProgress EXCEPT !.current = Len(t.formulas)]
    /\ isLoading' = FALSE
    /\ isProcessing' = FALSE
    /\ UNCHANGED <<formulas, corrections, error, parseTasks, textTasks,
                   viewVars, workVars, loopVars>>

\* An exception inside the try block before setResults (newResults is local
\* and is dropped): catch, then finally.
TimerCallbackThrows(t) ==
    /\ BagIn(t, timers)
    /\ timers' = timers (-) SetToBag({t})
    /\ error' = Error("Error applying corrections: ", <<>>)
    /\ isLoading' = FALSE
    /\ isProcessing' = FALSE
    /\ UNCHANGED <<formulas, corrections, results, processProgress, parseTasks,
                   textTasks, viewVars, workVars, loopVars>>

\* ------------------------------------------------------------------------
\* resetAll, and the Close button of the error dialog
\* ------------------------------------------------------------------------
resetAll ==
    /\ formulas' = <<>>
    /\ corrections' = <<>>
    /\ results' = <<>>
    /\ searchQuery' = <<>>
    /\ sortConfig' = [key |-> "id", direction |-> "asc"]
    /\ selectedId' = noSelection
    /\ error' = null
    /\ isLoading' = FALSE
    /\ processProgress' = [current |-> 0, total |-> 0]
    /\ isProcessing' = FALSE
    /\ UNCHANGED <<taskVars, loopVars, workVars>>

closeError ==
    /\ error # null
    /\ error' = null
    /\ UNCHANGED <<formulas, corrections, results, isLoading, processProgress,
                   isProcessing, taskVars, viewVars, workVars, loopVars>>

\* ------------------------------------------------------------------------
\* The page: which controls accept an event (their disabled attributes)
\* ------------------------------------------------------------------------
FileInputDisabled == isLoading

ApplyButtonDisabled ==
    Len(formulas) = 0 \/ Len(corrections) = 0 \/ isLoading

ChangeFormulaFile(file) ==
    /\ ~FileInputDisabled
    /\ file # undefined => PendingCount < MaxPending
    /\ handleFormulaFile(file)

ChangeCorrectionFile(file) ==
    /\ ~FileInputDisabled
    /\ file # undefined => PendingCount < MaxPending
    /\ handleCorrectionFile(file)

ClickApply ==
    /\ ~ApplyButtonDisabled
    /\ PendingCount < MaxPending
    /\ applyCorrections

\* applyCorrections called as a function, with no button in front of it
CallApply ==
    /\ PendingCount < MaxPending
    /\ applyCorrections

ClickReset == resetAll

\* A pending callback runs at any later moment: the event loop gives no order
\* between a timer, a file read that completes and an event of the page, and
\* nothing in the component cancels a callback once it is pending.
Callbacks ==
    \/ \E file \in BagToSet(parseTasks) : PapaError(file)
    \/ \E file \in BagToSet(parseTasks) : PapaComplete(file)
    \/ \E file \in BagToSet(textTasks) : TextRejected(file)
    \/ \E file \in BagToSet(textTasks) : TextResolved(file)
    \/ \E t \in BagToSet(timers) : TimerCallbackThrows(t)
    \/ \E t \in BagToSet(timers) : TimerCallback(t)

Next ==
    \/ \E file \in FormulaFiles \cup {undefined} : ChangeFormulaFile(file)
    \/ \E file \in CorrectionFiles \cup {undefined} : ChangeCorrectionFile(file)
    \/ ClickApply
    \/ ClickReset
    \/ closeError
    \/ Callbacks

Spec == Init /\ [][Next]_vars

NextHandlers ==
    \/ \E file \in FormulaFiles \cup {undefined} : ChangeFormulaFile(file)
    \/ \E file \in CorrectionFiles \cup {undefined} : ChangeCorrectionFile(file)
    \/ CallApply
    \/ ClickReset
    \/ closeError
    \/ Callbacks

SpecHandlers == Init /\ [][NextHandlers]_vars

\* ------------------------------------------------------------------------
\* The page without the Reset button, under the scheduling of the event loop
\*
\* Papa.parse calls complete or error for every file it is given, file.text()
\* fulfils or rejects, and a timer set with setTimeout fires: as long as a
\* callback is pending, one of the pending callbacks runs.
\* ------------------------------------------------------------------------
NextNoReset ==
    \/ \E file \in FormulaFiles \cup {undefined} : ChangeFormulaFile(file)
    \/ \E file \in CorrectionFiles \cup {undefined} : ChangeCorrectionFile(file)
    \/ ClickApply
    \/ closeError
    \/ Callbacks

SpecNoReset == Init /\ [][NextNoReset]_vars /\ WF_vars(Callbacks)

\* ------------------------------------------------------------------------
\* The page from a Reset on, as long as no new load or run is started
\*
\* resetAll sets the state of the component and leaves every pending
\* callback pending, so the page after a Reset is the reset state with
\* whatever file reads and timers were outstanding: files handed to
\* Papa.parse and file.text() before, and timers holding the catalogs that
\* were loaded when Apply was pressed.  From there only Reset, Close and the
\* pending callbacks act.
\* ------------------------------------------------------------------------
\* the catalogs a timer set before the Reset can hold
TimerClosures ==
    {[formulas |-> parsedFormulasOf(file.data),
      corrections |-> correctionFormulasOf(text.text)] :
        file \in {FileA, FileB}, text \in {[text |-> TextA], [text |-> TextB]}}

InitReset ==
    /\ \E files \in SUBSET FormulaFiles, texts \in SUBSET CorrectionFiles,
          closures \in SUBSET TimerClosures :
          /\ parseTasks = SetToBag(files)
          /\ textTasks = SetToBag(texts)
          /\ timers = SetToBag(closures)
    /\ PendingCount <= MaxPending
    /\ formulas = <<>>
    /\ corrections = <<>>
    /\ results = <<>>
    /\ searchQuery = <<>>
    /\ sortConfig = [key |-> "id", direction |-> "asc"]
    /\ selectedId = noSelection
    /\ error = null
    /\ isLoading = FALSE
    /\ processProgress = [current |-> 0, total |-> 0]
    /\ isProcessing = FALSE
    /\ pc = "idle"
    /\ loopBatchSize = batchSize
    /\ i = 0
    /\ newResults = <<>>
    /\ exportData = <<>>
    /\ calc = NoCalc

NextReset ==
    \/ ClickReset
    \/ closeError
    \/ Callbacks

SpecReset == InitReset /\ [][NextReset]_vars

\* ------------------------------------------------------------------------
\* The matching loop, batch by batch
\*
\* The callback of applyCorrections taken alone: formulas and corrections are
\* the catalogs its closure holds (both non-empty, by the guard of
\* applyCorrections), and the loop runs one batch per step with a batch size
\* drawn from 1..MaxBatch.
\* ------------------------------------------------------------------------
Hydrogens(n) == AtomicFormula(1, n, 0, 0, 0, 0, 0)
Delta(n) == AtomicFormula(0, n, 0, 0, 0, 0, 0)

EntryPool ==
    {[id |-> id, originalFormula |-> f] :
        id \in {<<"1">>, <<"2">>}, f \in {Hydrogens(1), Hydrogens(2)}}

DeltaPool == {[formula |-> Delta(0)], [formula |-> Delta(1)], [formula |-> Delta(-1)]}

NonEmptySeqs(S, n) == UNION {[1..k -> S] : k \in 1..n}

InitMatch ==
    /\ formulas \in NonEmptySeqs(EntryPool, MaxEntries)
    /\ corrections \in NonEmptySeqs(DeltaPool, MaxCorr)
    /\ loopBatchSize \in 1..MaxBatch
    /\ pc = "loop"
    /\ i = 0
    /\ newResults = <<>>
    /\ exportData = <<>>
    /\ calc = NoCalc
    /\ results = <<>>
    /\ searchQuery = <<>>
    /\ sortConfig = [key |-> "id", direction |-> "asc"]
    /\ selectedId = noSelection
    /\ error = null
    /\ isLoading = TRUE
    /\ processProgress = [current |-> 0, total |-> Len(formulas)]
    /\ isProcessing = TRUE
    /\ parseTasks = EmptyBag
    /\ textTasks = EmptyBag
    /\ timers = EmptyBag

\* One turn of the for loop of line 164.
LoopBatch ==
    /\ pc = "loop"
    /\ i < Len(formulas)
    /\ newResults' = newResults
           \o ProcessBatch(BatchSlice(formulas, i, loopBatchSize), corrections,
                           formulasByFormula(formulas))
    /\ i' = i + loopBatchSize
    /\ UNCHANGED <<formulas, corrections, results, error, isLoading,
                   processProgress, isProcessing, taskVars, viewVars, workVars, pc,
                   loopBatchSize>>

\* The loop is over: setResults(newResults), the progress, then finally.
LoopExit ==
    /\ pc = "loop"
    /\ i >= Len(formulas)
    /\ results' = newResults
    /\ processProgress' = [processProgress EXCEPT !.current = Len(formulas)]
    /\ isLoading' = FALSE
    /\ isProcessing' = FALSE
    /\ pc' = "done"
    /\ UNCHANGED <<formulas, corrections, error, taskVars, viewVars, workVars,
                   loopBatchSize, i, newResults>>

NextMatch == LoopBatch \/ LoopExit

SpecMatch == InitMatch /\ [][NextMatch]_vars

\* ------------------------------------------------------------------------
\* The two loaders on their own
\*
\* The file inputs, their callbacks, Reset and Close, with formula files of
\* every kind of header: both columns, one missing, both missing, and names
\* that are ID and formulas only once trimmed.
\* ------------------------------------------------------------------------
\* header "formulas " only
FileNoId == PapaResults(<< formulasColumn \o <<" ">> >>,
                << << <<"C", "1", "H", "1">> >> >>)
\* header "name" only
FileNoColumns == PapaResults(<< <<"n", "a", "m", "e">> >>, << << <<"1">> >> >>)
\* headers " ID" and "formulas ", records 1: C1H1 and 2: C1H2
FilePadded == PapaResults(<< <<" ">> \o ID, formulasColumn \o <<" ">> >>,
                << <<<<"1">>, <<"C", "1", "H", "1">>>>,
                   <<<<"2">>, <<"C", "1", "H", "2">>>> >>)

LoadFiles == {FileA, FileC, FileD, FileNoId, FileNoColumns, FilePadded}

LoadCallbacks ==
    \/ \E file \in BagToSet(parseTasks) : PapaComplete(file)
    \/ \E file \in BagToSet(parseTasks) : PapaError(file)
    \/ \E file \in BagToSet(textTasks) : TextResolved(file)
    \/ \E file \in BagToSet(textTasks) : TextRejected(file)

NextLoad ==
    \/ \E file \in LoadFiles \cup {undefined} : ChangeFormulaFile(file)
    \/ \E file \in CorrectionFiles \cup {undefined} : ChangeCorrectionFile(file)
    \/ ClickReset
    \/ closeError
    \/ LoadCallbacks

SpecLoad == Init /\ [][NextLoad]_vars

\* ------------------------------------------------------------------------
\* The methods of AtomicFormula on their own
\*
\* Two formulas a and b are constructed; toFormulaString is applied to both
\* and parseFormulaString to the text of a, or add is applied to a and b.
\* ------------------------------------------------------------------------
pageVars == <<formulas, corrections, results, error, isLoading,
              processProgress, isProcessing>>

\* counts of one and two digits, of either sign
Counts == {n * m : n \in (0 - MaxCount)..MaxCount, m \in {1, 10, 11}}

\* the fields in the order toFormulaString writes them
canonicalOrder == <<"carbon", "hydrogen", "chlorine", "nitrogen", "oxygen",
                    "phosphorus", "sulfur">>

ZeroFormula == AtomicFormula(0, 0, 0, 0, 0, 0, 0)

\* formulas whose counts are zero outside two neighbours of the order
TwoNeighbours ==
    {[ZeroFormula EXCEPT ![canonicalOrder[k]] = n, ![canonicalOrder[k + 1]] = m] :
        k \in 1..6, n \in Counts, m \in Counts}

\* formulas whose counts are zero outside one field
OneElement ==
    {[ZeroFormula EXCEPT ![canonicalOrder[k]] = n] : k \in 1..7, n \in Counts}

InitFormula ==
    /\ \E a \in TwoNeighbours, b \in OneElement :
          calc = [step |-> "constructed", a |-> a, b |-> b]
    /\ formulas = <<>>
    /\ corrections = <<>>
    /\ results = <<>>
    /\ searchQuery = <<>>
    /\ sortConfig = [key |-> "id", direction |-> "asc"]
    /\ selectedId = noSelection
    /\ error = null
    /\ isLoading = FALSE
    /\ processProgress = [current |-> 0, total |-> 0]
    /\ isProcessing = FALSE
    /\ parseTasks = EmptyBag
    /\ textTasks = EmptyBag
    /\ timers = EmptyBag
    /\ pc = "idle"
    /\ loopBatchSize = batchSize
    /\ i = 0
    /\ newResults = <<>>
    /\ exportData = <<>>

\* a.toFormulaString() and b.toFormulaString()
FormatBoth ==
    /\ calc.step = "constructed"
    /\ calc' = [step |-> "formatted", a |-> calc.a, b |-> calc.b,
                textA |-> toFormulaString(calc.a),
                textB |-> toFormulaString(calc.b)]
    /\ UNCHANGED <<pageVars, taskVars, viewVars, loopVars, exportData>>

\* AtomicFormula.parseFormulaString(a.toFormulaString())
ParseBack ==
    /\ calc.step = "formatted"
    /\ calc' = [step |-> "parsed", a |-> calc.a, b |-> calc.b,
                textA |-> calc.textA, textB |-> calc.textB,
                parsed |-> parseFormulaString(calc.textA)]
    /\ UNCHANGED <<pageVars, taskVars, viewVars, loopVars, exportData>>

\* a.add(b): the method assigns to no field of this or other
AddBoth ==
    /\ calc.step = "constructed"
    /\ calc' = [step |-> "added", a |-> calc.a, b |-> calc.b,
                sum |-> add(calc.a, calc.b)]
    /\ UNCHANGED <<pageVars, taskVars, viewVars, loopVars, exportData>>

NextFormula == FormatBoth \/ ParseBack \/ AddBoth

SpecFormula == InitFormula /\ [][NextFormula]_vars

\* ------------------------------------------------------------------------
\* parseFormulaString on its own
\*
\* An input text is a sequence of tokens, each a symbol, the text of a
\* count and a rest the pattern does not match; every count text carries
\* the integer it stands for, so that what parseFormulaString returns can be
\* held against the tokens the text was written from.
\* ------------------------------------------------------------------------
\* recognised symbols, two-letter symbols that start like one, and Xy
TokenSymbols == {<<"C">>, <<"H">>, <<"C", "l">>, <<"C", "a">>, <<"H", "e">>,
                 <<"X", "y">>}

\* count texts -?\d* can match, with parseInt(text) || 0
TokenCounts == {[text |-> <<>>, value |-> 0],
                [text |-> <<"-">>, value |-> 0],
                [text |-> <<"3">>, value |-> 3],
                [text |-> <<"8">>, value |-> 8],
                [text |-> <<"-", "1", "2">>, value |-> 0 - 12]}

\* texts between tokens: neither an upper-case letter, nor a continuation
\* of the token before
TokenRests == {<<>>, <<"+", "5">>}

Tokens == {[symbol |-> sym, count |-> cnt, rest |-> rest] :
              sym \in TokenSymbols, cnt \in TokenCounts, rest \in TokenRests}

RECURSIVE TextOf(_)
TextOf(tokens) ==
    IF tokens = <<>> THEN <<>>
    ELSE Head(tokens).symbol \o Head(tokens).count.text \o Head(tokens).rest
         \o TextOf(Tail(tokens))

InitParse ==
    /\ \E tokens \in UNION {[1..n -> Tokens] : n \in 0..MaxTokens} :
          calc = [step |-> "text", tokens |-> tokens, formula |-> TextOf(tokens)]
    /\ formulas = <<>>
    /\ corrections = <<>>
    /\ results = <<>>
    /\ searchQuery = <<>>
    /\ sortConfig = [key |-> "id", direction |-> "asc"]
    /\ selectedId = noSelection
    /\ error = null
    /\ isLoading = FALSE
    /\ processProgress = [current |-> 0, total |-> 0]
    /\ isProcessing = FALSE
    /\ parseTasks = EmptyBag
    /\ textTasks = EmptyBag
    /\ timers = EmptyBag
    /\ pc = "idle"
    /\ loopBatchSize = batchSize
    /\ i = 0
    /\ newResults = <<>>
    /\ exportData = <<>>

\* AtomicFormula.parseFormulaString(formula)
ParseText ==
    /\ calc.step = "text"
    /\ calc' = [step |-> "parsedText", tokens |-> calc.tokens,
                formula |-> calc.formula,
                parsed |-> parseFormulaString(calc.formula)]
    /\ UNCHANGED <<pageVars, taskVars, viewVars, loopVars, exportData>>

NextParse == ParseText

SpecParse == InitParse /\ [][NextParse]_vars

\* ------------------------------------------------------------------------
\* The table and its export
\*
\* A catalog, a correction list and the results of their matching run are
\* on the page; the column headers are clicked, the search box is typed
\* into, and the Export button is pressed.
\* ------------------------------------------------------------------------
upperLetters == <<"A","B","C","D","E","F","G","H","I","J","K","L","M",
                  "N","O","P","Q","R","S","T","U","V","W","X","Y","Z">>
lowerLetters == <<"a","b","c","d","e","f","g","h","i","j","k","l","m",
                  "n","o","p","q","r","s","t","u","v","w","x","y","z">>

\* String.prototype.toLowerCase
toLowerCase(s) ==
    [k \in DOMAIN s |->
        IF s[k] \in UpperCase
        THEN lowerLetters[CHOOSE j \in DOMAIN upperLetters : upperLetters[j] = s[k]]
        ELSE s[k]]

\* String.prototype.includes
includes(s, sub) ==
    \E start \in 1..(Len(s) + 1) :
        /\ start + Len(sub) - 1 <= Len(s)
        /\ SubSeq(s, start, start + Len(sub) - 1) = sub

\* the characters of ids and canonical strings, by code unit
codeOrder == <<"-", "0", "1", "2", "3", "4", "5", "6", "7", "8", "9",
               "C", "H", "N", "O", "P", "S", "l">>
CodeRank(ch) == CHOOSE k \in DOMAIN codeOrder : codeOrder[k] = ch

\* s < t on strings
RECURSIVE StringLess(_, _)
StringLess(s, t) ==
    IF t = <<>> THEN FALSE
    ELSE IF s = <<>> THEN TRUE
    ELSE IF Head(s) = Head(t) THEN StringLess(Tail(s), Tail(t))
    ELSE CodeRank(Head(s)) < CodeRank(Head(t))

\* results.filter(r => r.matchedEntry.id === formula.id)
matchesForFormula_byMatched(rs, formula) ==
    SelectSeq(rs, LAMBDA r : r.matchedEntry.id = formula.id)

\* results.filter(r => r.originalEntry.id === formula.id)
matchesForFormula(rs, formula) ==
    SelectSeq(rs, LAMBDA r : r.originalEntry.id = formula.id)

\* the iteratee handed to _.orderBy; parseInt(formula.id, 10) of an id of digits
iteratee(formula, config, rs) ==
    IF config.key = "formula" THEN toFormulaString(formula.originalFormula)
    ELSE IF config.key = "matches" THEN Len(matchesForFormula(rs, formula))
    ELSE DigitsValue(formula.id, 0)

\* _.orderBy(collection, [iteratee], [direction]): a stable sort, descending
\* for "desc" and ascending otherwise; equal keys keep the order of the
\* collection in both directions.
orderBy(collection, config, rs) ==
    LET n == Len(collection)
        key(k) == iteratee(collection[k], config, rs)
        less(x, y) == IF config.key = "formula" THEN StringLess(x, y) ELSE x < y
        before(j, k) == IF config.direction = "desc"
                        THEN less(key(k), key(j)) ELSE less(key(j), key(k))
        precedes(j, k) == before(j, k) \/ (~before(k, j) /\ j < k)
        rank(k) == Cardinality({j \in 1..n : j # k /\ precedes(j, k)})
    IN  [r \in 1..n |-> collection[CHOOSE k \in 1..n : rank(k) = r - 1]]

\* the useMemo of lines 214-233
sortedFormulas ==
    LET searchLower == toLowerCase(searchQuery)
        shown(formula) ==
            /\ Len(formula.id) > 0
            /\ \/ includes(toLowerCase(formula.id), searchLower)
               \/ includes(toLowerCase(toFormulaString(formula.originalFormula)),
                           searchLower)
    IN  orderBy(SelectSeq(formulas, shown), sortConfig, results)

handleSort(key) ==
    /\ sortConfig' = [key |-> key,
                      direction |-> IF sortConfig.key = key
                                       /\ sortConfig.direction = "asc"
                                    THEN "desc" ELSE "asc"]
    /\ UNCHANGED <<pageVars, searchQuery, selectedId, taskVars, loopVars, workVars>>

\* onChange of the search box
setSearchQuery(value) ==
    /\ searchQuery' = value
    /\ UNCHANGED <<pageVars, sortConfig, selectedId, taskVars, loopVars, workVars>>

\* `correction = ${...} result = (ID ${...}) ${...}`
matchDescription(match) ==
    <<"c","o","r","r","e","c","t","i","o","n"," ","="," ">>
    \o toFormulaString(match.appliedCorrection)
    \o <<" ","r","e","s","u","l","t"," ","="," ","(","I","D"," ">>
    \o match.matchedEntry.id
    \o <<")"," ">>
    \o toFormulaString(match.matchedEntry.originalFormula)

exportRow(formula) ==
    LET matches == matchesForFormula(results, formula)
    IN  ("ID" :> formula.id)
        @@ ("Original Formula" :> toFormulaString(formula.originalFormula))
        @@ ("Number of Matches" :> Len(matches))
        @@ ("Matches" :>
               IF Len(matches) > 0
               THEN <<"[">>
                    \o Join([k \in DOMAIN matches |-> matchDescription(matches[k])],
                            <<",", " ">>)
                    \o <<"]">>
               ELSE <<>>)

\* exportToCSV, up to the rows it hands to Papa.unparse
exportToCSV ==
    /\ LET shown == sortedFormulas
       IN  exportData' = [r \in DOMAIN shown |-> exportRow(shown[r])]
    /\ UNCHANGED <<pageVars, viewVars, taskVars, loopVars, calc>>

ExportButtonDisabled == Len(sortedFormulas) = 0

ClickHeader(key) == handleSort(key)
ClickExport == ~ExportButtonDisabled /\ exportToCSV

\* what is typed into the search box
SearchPool == {<<>>, <<"H", "2">>}

\* correction lists whose runs give up to two matches of an entry
ExportCorrections == {<<[formula |-> Delta(1)], [formula |-> Delta(0 - 1)]>>,
                      <<[formula |-> Delta(0)], [formula |-> Delta(1)]>>}

InitExport ==
    /\ formulas \in NonEmptySeqs(EntryPool, MaxExport)
    /\ corrections \in ExportCorrections
    /\ results = RunMatching(formulas, corrections, batchSize)
    /\ searchQuery = <<>>
    /\ sortConfig = [key |-> "id", direction |-> "asc"]
    /\ selectedId = noSelection
    /\ error = null
    /\ isLoading = FALSE
    /\ processProgress = [current |-> Len(formulas), total |-> Len(formulas)]
    /\ isProcessing = FALSE
    /\ parseTasks = EmptyBag
    /\ textTasks = EmptyBag
    /\ timers = EmptyBag
    /\ pc = "idle"
    /\ loopBatchSize = batchSize
    /\ i = 0
    /\ newResults = <<>>
    /\ exportData = <<>>
    /\ calc = NoCalc

NextExport ==
    \/ \E key \in {"id", "formula", "matches"} : ClickHeader(key)
    \/ \E value \in SearchPool : setSearchQuery(value)
    \/ ClickExport

SpecExport == InitExport /\ [][NextExport]_vars

\* ------------------------------------------------------------------------
\* Properties
\* ------------------------------------------------------------------------
SameCounts(a, b) ==
    /\ a.carbon = b.carbon /\ a.hydrogen = b.hydrogen
    /\ a.nitrogen = b.nitrogen /\ a.oxygen = b.oxygen
    /\ a.sulfur = b.sulfur /\ a.phosphorus = b.phosphorus
    /\ a.chlorine = b.chlorine

\* C1: whatever loads and matching runs have happened, every Match held in
\* results has its original formula plus its applied correction equal, count
\* by count over the seven elements, to its matched formula.
MatchesAddUp ==
    \A k \in DOMAIN results :
        SameCounts(add(results[k].originalEntry.originalFormula,
                       results[k].appliedCorrection),
                   results[k].matchedEntry.originalFormula)

MatchesAddUpWitness ==
    \E k \in DOMAIN results :
        /\ results[k].appliedCorrection # Delta(0)
        /\ results[k].originalEntry.originalFormula
               # results[k].matchedEntry.originalFormula

\* C2: a completed run stores exactly the sequence obtained by going through
\* the entries in input order and, for each, the corrections in input order,
\* with one Match for each pair whose corrected canonical string is in the
\* index under an entry of another id; nothing is deduplicated.
PairAt(p) ==
    [e |-> ((p - 1) \div Len(corrections)) + 1,
     c |-> ((p - 1) % Len(corrections)) + 1]

CorrectedKey(pair) ==
    toFormulaString(add(formulas[pair.e].originalFormula,
                        corrections[pair.c].formula))

PairEmits(pair) ==
    LET index == formulasByFormula(formulas)
    IN  /\ CorrectedKey(pair) \in DOMAIN index
        /\ index[CorrectedKey(pair)].id # formulas[pair.e].id

ExpectedMatches ==
    LET index == formulasByFormula(formulas)
        allPairs == [p \in 1..(Len(formulas) * Len(corrections)) |-> PairAt(p)]
        kept == SelectSeq(allPairs, PairEmits)
    IN  [k \in DOMAIN kept |->
            [originalEntry |-> formulas[kept[k].e],
             matchedEntry |-> index[CorrectedKey(kept[k])],
             appliedCorrection |-> corrections[kept[k].c].formula]]

\* The scenario of two entries C10H20N2O5S1P0 and C10H21N2O5S1P0 with the
\* correction H1, through both loaders: one Match, from 1 to 2, whose
\* correction prints as C0H1Cl0N0O0P0S0.
ScenarioFile ==
    PapaResults(<<ID, formulasColumn>>,
        << <<<<"1">>, <<"C","1","0","H","2","0","N","2","O","5","S","1","P","0">>>>,
           <<<<"2">>, <<"C","1","0","H","2","1","N","2","O","5","S","1","P","0">>>> >>)

ScenarioMatches ==
    RunMatching(parsedFormulasOf(ScenarioFile.data),
                correctionFormulasOf(<<"H", "1">>), batchSize)

ScenarioHolds ==
    /\ Len(ScenarioMatches) = 1
    /\ ScenarioMatches[1].originalEntry.id = <<"1">>
    /\ ScenarioMatches[1].matchedEntry.id = <<"2">>
    /\ toFormulaString(ScenarioMatches[1].appliedCorrection)
           = <<"C","0","H","1","C","l","0","N","0","O","0","P","0","S","0">>

RunStoresPairsInOrder ==
    /\ pc = "done" => results = ExpectedMatches
    /\ ScenarioHolds

\* two corrections at different places of the list sent one entry to one target
RunStoresPairsInOrderWitness ==
    /\ pc = "done"
    /\ \E k \in DOMAIN results :
           /\ k + 1 \in DOMAIN results
           /\ results[k] = results[k + 1]
    /\ \E k, l \in DOMAIN results :
           results[k].originalEntry # results[l].originalEntry

\* C3: a Match's target is the entry that is last in input order among those
\* with the corrected canonical string; with entries 1 and 2 both C1H1 and a
\* zero correction the run gives the single Match from 1 to 2.
KeyOf(entry) == toFormulaString(entry.originalFormula)

IsLastWithKey(k, key) ==
    /\ KeyOf(formulas[k]) = key
    /\ \A j \in DOMAIN formulas : j > k => KeyOf(formulas[j]) # key

TwoOfOneFormula ==
    << [id |-> <<"1">>, originalFormula |-> Hydrogens(1)],
       [id |-> <<"2">>, originalFormula |-> Hydrogens(1)] >>

LastEntryWinsIndex ==
    /\ \A n \in DOMAIN newResults :
           \E k \in DOMAIN formulas :
               /\ formulas[k] = newResults[n].matchedEntry
               /\ IsLastWithKey(k,
                      toFormulaString(add(newResults[n].originalEntry.originalFormula,
                                          newResults[n].appliedCorrection)))
    /\ (pc = "done" /\ formulas = TwoOfOneFormula
            /\ corrections = << [formula |-> Delta(0)] >>)
       => results = << [originalEntry |-> TwoOfOneFormula[1],
                        matchedEntry |-> TwoOfOneFormula[2],
                        appliedCorrection |-> Delta(0)] >>

LastEntryWinsIndexWitness ==
    /\ pc = "done"
    /\ formulas = TwoOfOneFormula
    /\ corrections = << [formula |-> Delta(0)] >>
    /\ Len(results) = 1

\* C4: no Match in results has the same id on both sides, also when a
\* correction is all-zero and when the catalog holds an id twice.
NoSelfMatch ==
    \A k \in DOMAIN results :
        results[k].originalEntry.id # results[k].matchedEntry.id

HasZeroCorrection == \E c \in DOMAIN corrections : corrections[c].formula = Delta(0)

HasDuplicateId ==
    \E a, b \in DOMAIN formulas : a # b /\ formulas[a].id = formulas[b].id

\* the run over a catalog with an id held twice and an all-zero correction
\* has stored its matches
NoSelfMatchWitness ==
    /\ HasZeroCorrection
    /\ HasDuplicateId
    /\ timers = EmptyBag
    /\ processProgress = [current |-> Len(formulas), total |-> Len(formulas)]
    /\ results # <<>>
    /\ results = RunMatching(formulas, corrections, batchSize)

\* C5 as stated: a step in which a load completes and sets a catalog leaves
\* results empty.
FormulaLoadCompleted ==
    \E file \in BagToSet(parseTasks) :
        /\ parseTasks' = parseTasks (-) SetToBag({file})
        /\ validateCSVStructure(file.fields).isValid
        /\ Len(parsedFormulasOf(file.data)) > 0
        /\ formulas' = parsedFormulasOf(file.data)

CorrectionLoadCompleted ==
    \E file \in BagToSet(textTasks) :
        /\ textTasks' = textTasks (-) SetToBag({file})
        /\ corrections' = correctionFormulasOf(file.text)
        /\ error' = error

LoadDiscardsMatches ==
    [][(FormulaLoadCompleted \/ CorrectionLoadCompleted) => results' = <<>>]_vars

\* C6 as stated: with a non-empty catalog and zero corrections, triggering
\* matching raises no error and leaves results empty.
NoDataError == Error("No formulas or corrections loaded", <<>>)

ZeroCorrectionsRunIsLegal ==
    [][(Len(formulas) > 0 /\ Len(corrections) = 0 /\ error # NoDataError)
          => (error' # NoDataError)]_vars

\* C7 as stated: at most one matching run is between its trigger and the
\* storing of its results.
AtMostOneRun == BagCardinality(timers) <= 1

\* C8 as stated: while a run is between its trigger and the storing of its
\* results no step changes either catalog, and the results a run stores are
\* the match of the catalogs current at that moment.
RunStoresResults ==
    \E t \in BagToSet(timers) :
        /\ timers' = timers (-) SetToBag({t})
        /\ results' = RunMatching(t.formulas, t.corrections, batchSize)
        /\ processProgress'.current = Len(t.formulas)
        /\ error' = error

CatalogsFrozenDuringRun ==
    [][/\ timers # EmptyBag => (formulas' = formulas /\ corrections' = corrections)
       /\ RunStoresResults =>
              results' = RunMatching(formulas', corrections', batchSize)]_vars

\* C9: whatever the batch size, after each batch newResults is what the
\* double loop without batches gives over the entries gone through so far,
\* and the run stores what that loop gives over the whole catalog, which is
\* also what the loop gives with the batch size of line 160.
Unbatched(entries) ==
    ProcessBatch(entries, corrections, formulasByFormula(formulas))

BatchingKeepsResult ==
    /\ newResults = Unbatched(SubSeq(formulas, 1, Min(i, Len(formulas))))
    /\ pc = "done" => /\ results = Unbatched(formulas)
                      /\ results = RunMatching(formulas, corrections, batchSize)

\* a run of several batches, the last one shorter than the batch size, with
\* matches from entries of different batches
BatchingKeepsResultWitness ==
    /\ pc = "done"
    /\ loopBatchSize > 1
    /\ loopBatchSize < Len(formulas)
    /\ Len(formulas) % loopBatchSize # 0
    /\ \E a, b \in DOMAIN results :
           /\ results[a].originalEntry = formulas[1]
           /\ results[b].originalEntry = formulas[Len(formulas)]
           /\ formulas[1] # formulas[Len(formulas)]

\* C10 as stated: when a run throws, the step that surfaces the error leaves
\* results empty and the loading flag cleared.
ApplyError == Error("Error applying corrections: ", <<>>)

FailedRunLeavesNoMatches ==
    [][(error # ApplyError /\ error' = ApplyError)
          => (results' = <<>> /\ ~isLoading')]_vars

\* ------------------------------------------------------------------------
\* Properties of the loaders (SpecLoad)
\* ------------------------------------------------------------------------
\* the step in which a callback of Papa.parse for this file runs
FormulaLoadEnds(file) ==
    /\ BagIn(file, parseTasks)
    /\ parseTasks' = parseTasks (-) SetToBag({file})

\* what the error callback leaves behind
ReaderError == Error("Error parsing CSV file: ", <<>>)
ReaderFailed == error' = ReaderError /\ formulas' = <<>>

HasColumn(file, col) == \E j \in DOMAIN file.fields : trim(file.fields[j]) = col
LacksColumn(file) == ~HasColumn(file, ID) \/ ~HasColumn(file, formulasColumn)

\* the text after "Missing required column(s): " the file is due
MissingNames(file) ==
    IF ~HasColumn(file, ID) /\ ~HasColumn(file, formulasColumn)
    THEN <<"I", "D", ",", " ", "f", "o", "r", "m", "u", "l", "a", "s">>
    ELSE IF ~HasColumn(file, ID)
    THEN <<"I", "D">>
    ELSE <<"f", "o", "r", "m", "u", "l", "a", "s">>

\* C11: when the reader hands over a file whose headers lack ID or formulas,
\* the error set names exactly the missing column(s) and the formula catalog
\* holds no entry afterwards.
MissingColumnsNamed ==
    [][\A file \in LoadFiles :
         FormulaLoadEnds(file) /\ LacksColumn(file) /\ ~ReaderFailed
            => /\ error' = Error("Missing required column(s): ", MissingNames(file))
               /\ formulas' = <<>>]_vars

\* a load of a file without any required column has failed and named both
MissingColumnsNamedWitness ==
    /\ error = Error("Missing required column(s): ",
                     <<"I", "D", ",", " ", "f", "o", "r", "m", "u", "l", "a", "s">>)
    /\ formulas = <<>>
    /\ parseTasks = EmptyBag

\* rows of the file that carry both values, by the file's own header names
UsableRows(file) ==
    SelectSeq(file.data, LAMBDA row : Field(row, ID) # <<>>
                                      /\ Field(row, formulasColumn) # <<>>)

FormulaLoadErrors ==
    {ReaderError, Error("No valid formulas found in the CSV file", <<>>)}
    \cup {Error("Missing required column(s): ", MissingNames(file)) : file \in LoadFiles}

\* C12: a formula load ends either by storing the file's entries, or by
\* setting an error and leaving the catalog as it was or empty; a file that
\* lacks a column or has no row with both values always ends the second way.
FailedLoadIsTerminal ==
    [][\A file \in LoadFiles :
         FormulaLoadEnds(file)
            => \/ /\ ~LacksColumn(file)
                  /\ Len(UsableRows(file)) > 0
                  /\ Len(formulas') = Len(UsableRows(file))
                  /\ error' = error
               \/ /\ error' \in FormulaLoadErrors
                  /\ formulas' \in {formulas, <<>>}]_vars

\* a file with both columns and no usable row has failed over a loaded catalog
FailedLoadIsTerminalWitness ==
    /\ error = Error("No valid formulas found in the CSV file", <<>>)
    /\ Len(formulas) > 0
    /\ parseTasks = EmptyBag

\* C13: when the reader hands over the file whose headers are " ID" and
\* "formulas ", its two records become the catalog.
PaddedHeadersLoad ==
    [][FormulaLoadEnds(FilePadded) /\ ~ReaderFailed
          => /\ Len(formulas') = 2
             /\ formulas'[1].id = <<"1">>
             /\ formulas'[2].id = <<"2">>
             /\ error' = error]_vars

\* C19: a step of a formula load leaves the correction catalog as it was,
\* and a step of a correction load leaves the formula catalog as it was.
LoadsAreIndependent ==
    [][/\ (parseTasks' # parseTasks => corrections' = corrections)
       /\ (textTasks' # textTasks => formulas' = formulas)]_vars

\* a formula load has failed next to loaded corrections, no load pending
LoadsAreIndependentWitness ==
    /\ Len(corrections) > 0
    /\ error = Error("Missing required column(s): ",
                     <<"f", "o", "r", "m", "u", "l", "a", "s">>)
    /\ PendingCount = 0

\* ------------------------------------------------------------------------
\* Properties of the AtomicFormula methods (SpecFormula)
\* ------------------------------------------------------------------------
\* C14: parsing the canonical string of a formula gives back the formula,
\* whatever the signs of its counts.
RoundTrip ==
    calc.step = "parsed" => calc.parsed = calc.a

\* the round trip of a formula with a negative two-digit count next to a zero
RoundTripWitness ==
    /\ calc.step = "parsed"
    /\ calc.a.carbon = 0
    /\ calc.a.hydrogen = 0 - 11
    /\ calc.a.chlorine = 10
    /\ calc.parsed = calc.a

\* C15: the canonical strings of two formulas are equal exactly when all
\* seven counts are equal.
CanonicalStringIsKey ==
    calc.step = "formatted"
        => ((calc.textA = calc.textB) <=> SameCounts(calc.a, calc.b))

\* C1H10 and C11H0 are formatted, and their strings differ
CanonicalStringIsKeyWitness ==
    /\ calc.step = "formatted"
    /\ calc.a.carbon = 1 /\ calc.a.hydrogen = 10
    /\ calc.b.carbon = 11
    /\ calc.textA # calc.textB

\* C20: each count of add(a, b) is the sum of the counts of a and b, and a
\* and b are as they were before the call.
AddIsElementwise ==
    [][calc'.step = "added"
          => /\ calc'.sum.carbon = calc.a.carbon + calc.b.carbon
             /\ calc'.sum.hydrogen = calc.a.hydrogen + calc.b.hydrogen
             /\ calc'.sum.nitrogen = calc.a.nitrogen + calc.b.nitrogen
             /\ calc'.sum.oxygen = calc.a.oxygen + calc.b.oxygen
             /\ calc'.sum.sulfur = calc.a.sulfur + calc.b.sulfur
             /\ calc'.sum.phosphorus = calc.a.phosphorus + calc.b.phosphorus
             /\ calc'.sum.chlorine = calc.a.chlorine + calc.b.chlorine
             /\ DOMAIN calc'.sum = DOMAIN ZeroFormula
             /\ calc'.a = calc.a
             /\ calc'.b = calc.b]_vars

\* a sum of two negative hydrogen counts next to a positive carbon count
AddIsElementwiseWitness ==
    /\ calc.step = "added"
    /\ calc.a.carbon = 1
    /\ calc.a.hydrogen = 0 - 1
    /\ calc.b.hydrogen = 0 - 10
    /\ calc.sum.hydrogen = 0 - 11

\* ------------------------------------------------------------------------
\* Properties of parseFormulaString (SpecParse)
\* ------------------------------------------------------------------------
\* the symbol each field is read from
SymbolOf == [carbon |-> <<"C">>, hydrogen |-> <<"H">>, nitrogen |-> <<"N">>,
             oxygen |-> <<"O">>, sulfur |-> <<"S">>, phosphorus |-> <<"P">>,
             chlorine |-> <<"C", "l">>]

\* positions of the tokens that carry the symbol
Occurrences(tokens, symbol) == {k \in DOMAIN tokens : tokens[k].symbol = symbol}

HasDigit(text) == \E k \in DOMAIN text : text[k] \in Digits

IsLast(tokens, k) ==
    \A later \in Occurrences(tokens, tokens[k].symbol) : later <= k

\* C16: parseFormulaString returns a formula of seven integers for every
\* text; a field whose symbol is not in the text, or whose last token has a
\* count without a digit, is 0; "", "Xy" and "C" give the zero formula and
\* "C3H8" gives carbon 3, hydrogen 8 and 0 elsewhere.
ParseIsTotalWithZeroDefault ==
    /\ calc.step = "parsedText"
          => /\ DOMAIN calc.parsed = DOMAIN SymbolOf
             /\ \A field \in DOMAIN SymbolOf :
                   /\ calc.parsed[field] \in Int
                   /\ Occurrences(calc.tokens, SymbolOf[field]) = {}
                         => calc.parsed[field] = 0
                   /\ \A k \in Occurrences(calc.tokens, SymbolOf[field]) :
                         IsLast(calc.tokens, k) /\ ~HasDigit(calc.tokens[k].count.text)
                            => calc.parsed[field] = 0
    /\ parseFormulaString(<<>>) = ZeroFormula
    /\ parseFormulaString(<<"X", "y">>) = ZeroFormula
    /\ parseFormulaString(<<"C">>) = ZeroFormula
    /\ parseFormulaString(<<"C", "3", "H", "8">>) = AtomicFormula(3, 8, 0, 0, 0, 0, 0)

\* the text "C-H8" is parsed: carbon with a count that is no number, hydrogen 8
ParseIsTotalWithZeroDefaultWitness ==
    /\ calc.step = "parsedText"
    /\ calc.formula = <<"C", "-", "H", "8">>
    /\ calc.parsed = AtomicFormula(0, 8, 0, 0, 0, 0, 0)

\* C17: each field is the integer of the last token of its symbol (0 when
\* that token has none, 0 when there is no such token), whatever the earlier
\* tokens of the symbol and the tokens of other symbols are.
LastOccurrenceWins ==
    calc.step = "parsedText"
       => \A field \in DOMAIN SymbolOf :
             LET occ == Occurrences(calc.tokens, SymbolOf[field])
             IN  calc.parsed[field] =
                    IF occ = {} THEN 0
                    ELSE calc.tokens[CHOOSE k \in occ : \A j \in occ : j <= k].count.value

\* the text "C3C" is parsed and carbon is 0, neither 3 nor 4
LastOccurrenceWinsWitness ==
    /\ calc.step = "parsedText"
    /\ calc.formula = <<"C", "3", "C">>
    /\ calc.parsed.carbon = 0

\* the text "C3Ca8" is parsed and carbon is 3
ForeignSymbolWitness ==
    /\ calc.step = "parsedText"
    /\ calc.formula = <<"C", "3", "C", "a", "8">>
    /\ calc.parsed = AtomicFormula(3, 0, 0, 0, 0, 0, 0)

\* ------------------------------------------------------------------------
\* Properties of the export (SpecExport)
\* ------------------------------------------------------------------------
\* positions in results of the Matches of the entries with this id
MatchesOf(id) == {k \in DOMAIN results : results[k].originalEntry.id = id}

\* the descriptions of the Matches of an id from position k on, in the order
\* of results, each but the first after ", "
RECURSIVE DescriptionsFrom(_, _, _)
DescriptionsFrom(id, k, first) ==
    IF k > Len(results) THEN <<>>
    ELSE IF k \in MatchesOf(id)
    THEN (IF first THEN <<>> ELSE <<",", " ">>)
         \o matchDescription(results[k])
         \o DescriptionsFrom(id, k + 1, FALSE)
    ELSE DescriptionsFrom(id, k + 1, first)

\* C18: in every exported row the match count is the number of Matches in
\* results whose originalEntry.id is the row's id, and the Matches text
\* lists the descriptions of exactly those Matches, in the order of results.
ExportRowListsOwnMatches ==
    \A r \in DOMAIN exportData :
        LET row == exportData[r]
        IN  /\ row["Number of Matches"] = Cardinality(MatchesOf(row["ID"]))
            /\ row["Matches"] =
                  IF MatchesOf(row["ID"]) = {} THEN <<>>
                  ELSE <<"[">> \o DescriptionsFrom(row["ID"], 1, TRUE) \o <<"]">>

\* an export of a filtered table, with a row of two Matches of different
\* corrections and a row of none
ExportRowListsOwnMatchesWitness ==
    /\ Len(exportData) < Len(formulas)
    /\ \E r \in DOMAIN exportData :
          /\ exportData[r]["Number of Matches"] = 2
          /\ \E j, k \in MatchesOf(exportData[r]["ID"]) :
                results[j].appliedCorrection # results[k].appliedCorrection
    /\ \E r \in DOMAIN exportData : exportData[r]["Number of Matches"] = 0

\* ------------------------------------------------------------------------
\* Properties of the loading flag (SpecNoReset)
\* ------------------------------------------------------------------------
\* C21: whenever the loading flag is set, by a change event of a file input
\* (with or without a file) or by Apply, a later state has it cleared, with
\* no Reset in between.
LoadingEventuallyEnds ==
    isLoading ~> ~isLoading

\* ------------------------------------------------------------------------
\* Properties of Reset (SpecReset)
\* ------------------------------------------------------------------------
\* C22: from a Reset on, and as long as no load or run is started, both
\* catalogs and the results are empty and the loading flag is false.
ResetStaysEmpty ==
    /\ formulas = <<>>
    /\ corrections = <<>>
    /\ results = <<>>
    /\ ~isLoading

====
